---------------------------- MODULE Spec2Model ----------------------------
(***************************************************************************)
(* Model of the MCP JSON-RPC endpoint of ontos                             *)
(* (src/backend/src/routes/mcp_routes.py): the envelope constructors, the  *)
(* scope matcher MCPHandler._has_scope, the method dispatcher              *)
(* MCPHandler.handle with its five handlers, and the request pipeline      *)
(* mcp_handler.                                                            *)
(*                                                                         *)
(* Python strings whose characters the code inspects (scope strings) are   *)
(* sequences of one-character strings; strings the code only compares or   *)
(* passes on (method names, tool names, messages) are TLA+ strings.        *)
(* Python's None is the record None.                                       *)
(***************************************************************************)
EXTENDS Naturals, Integers, Sequences, FiniteSets, TLC

VARIABLES
    \* ---- scope matcher on its own (specification SpecScope)
    sc_pc,            \* "call" before _has_scope runs, "ret" after
    sc_scopes,        \* self._token_info.scopes
    sc_required,      \* the required_scope argument
    sc_result,        \* the value _has_scope returned
    \* ---- one request through mcp_handler (specification Spec)
    pc,               \* position of mcp_handler
    x_api_key,        \* the X-API-Key header (None when absent)
    store,            \* the token store's row for the presented key
    registry,         \* what create_default_registry() builds
    token_info,       \* result of validate_token
    body,             \* result of request.json()
    rpc_request,      \* the validated JSONRPCRequest
    call,             \* tools/call in progress: the tool and what execute did
    response,         \* the envelope mcp_handler returns
    dispatched,       \* the envelope MCPHandler.handle returned
    handled,          \* what the resolved handler did: its return or raise
    session,          \* the db session: pending / committed side effects
    calls             \* how often each collaborator was called or failed

vars == << sc_pc, sc_scopes, sc_required, sc_result,
           pc, x_api_key, store, registry, token_info, body, rpc_request,
           call, response, dispatched, handled, session, calls >>

scopeVars == << sc_pc, sc_scopes, sc_required, sc_result >>

pipeVars == << pc, x_api_key, store, registry, token_info, body, rpc_request,
               call, response, dispatched, handled, session, calls >>

-----------------------------------------------------------------------------
(* Bounds of the model *)

\* longest scope string the scope matcher is tried on
MaxScopeLen == 3
\* most scopes a token holds when the scope matcher is tried on its own
MaxGranted == 1
\* most scopes the token of the pipeline holds
MaxScopes == 2
\* most tools in the registry
MaxTools == 2

-----------------------------------------------------------------------------
(* Error codes, mcp_routes.py lines 32-41 *)

JSONRPC_PARSE_ERROR == -32700
JSONRPC_INVALID_REQUEST == -32600
JSONRPC_METHOD_NOT_FOUND == -32601
JSONRPC_INVALID_PARAMS == -32602
JSONRPC_INTERNAL_ERROR == -32603
MCP_AUTH_FAILED == -32001
MCP_AUTH_MISSING_SCOPE == -32002

\* Python's None
None == [t |-> "None"]

-----------------------------------------------------------------------------
(* Python string operations on scope strings *)

\* c in s, for a one-character c
Contains(s, c) == \E i \in 1..Len(s) : s[i] = c

\* s.split(sep) for a one-character sep: the list of the parts between the
\* separators, left to right
RECURSIVE split(_, _)
split(s, sep) ==
    IF ~Contains(s, sep)
    THEN << s >>
    ELSE LET i == CHOOSE k \in 1..Len(s) :
                      s[k] = sep /\ \A j \in 1..(k - 1) : s[j] # sep
         IN  << SubSeq(s, 1, i - 1) >> \o split(SubSeq(s, i + 1, Len(s)), sep)

\* the scope strings "*" and ":*"
Star == << "*" >>
ColonStar == << ":", "*" >>

-----------------------------------------------------------------------------
(* MCPHandler._has_scope, lines 238-256.  scopes is the token's scope list;  *)
(* the code only tests membership in it, so it is a set here.                *)

\* mutant: the prefix wildcard takes the text before the LAST colon
has_scope_rsplit(scopes, required_scope) ==
    \/ Star \in scopes
    \/ required_scope \in scopes
    \/ /\ Contains(required_scope, ":")
       /\ LET parts == split(required_scope, ":")
              n == Len(required_scope) - Len(parts[Len(parts)]) - 1
          IN  (SubSeq(required_scope, 1, n) \o ColonStar) \in scopes

\* mutant: the admin wildcard is forgotten
has_scope_no_admin(scopes, required_scope) ==
    \/ required_scope \in scopes
    \/ /\ Contains(required_scope, ":")
       /\ (split(required_scope, ":")[1] \o ColonStar) \in scopes

_has_scope(scopes, required_scope) ==
    IF Star \in scopes
    THEN TRUE
    ELSE IF required_scope \in scopes
    THEN TRUE
    ELSE IF Contains(required_scope, ":")
    THEN LET prefix == split(required_scope, ":")[1]
         IN  IF (prefix \o ColonStar) \in scopes THEN TRUE ELSE FALSE
    ELSE FALSE


-----------------------------------------------------------------------------
(* JSON values of a request body.  A value carries its JSON type and its     *)
(* text, so the integer 42 and the string "42" are different values.         *)

Absent == [t |-> "absent"]
JStr(s) == [t |-> "str", v |-> s]
JInt(s) == [t |-> "int", v |-> s]
JList == [t |-> "list", v |-> "[]"]

\* the scope strings the tokens and tools of the pipeline use:
\* "d:r", "d:w" and "d:*"
ScopeRead == << "d", ":", "r" >>
ScopeWrite == << "d", ":", "w" >>
ScopeAll == << "d", ":", "*" >>

\* names of the tools create_default_registry() registers, in its order
ToolNames == << "t1", "t2", "t3", "t4" >>

-----------------------------------------------------------------------------
(* JSONRPCError, JSONRPCResponse and the two constructors, lines 52-85 *)

JSONRPCError(code, message, data) ==
    [t |-> "JSONRPCError", code |-> code, message |-> message, data |-> data]

JSONRPCResponse(result, error, id) ==
    [jsonrpc |-> "2.0", result |-> result, error |-> error, id |-> id]

\* mutant: the request id is dropped from error envelopes
make_error_response_no_id(code, message, data, request_id) ==
    JSONRPCResponse(None, JSONRPCError(code, message, data), None)

make_error_response(code, message, data, request_id) ==
    JSONRPCResponse(None, JSONRPCError(code, message, data), request_id)

make_success_response(result, request_id) ==
    JSONRPCResponse(result, None, request_id)

\* BaseModel.model_dump() of a JSONRPCResponse: the dict of its fields, the
\* nested error model dumped to a dict as well
model_dump(r) ==
    [jsonrpc |-> r.jsonrpc,
     result |-> r.result,
     error |-> IF r.error = None
               THEN None
               ELSE [code |-> r.error.code,
                     message |-> r.error.message,
                     data |-> r.error.data],
     id |-> r.id]

\* MCPError, lines 275-281, and any other exception
MCPError(code, message, data) ==
    [t |-> "MCPError", code |-> code, message |-> message, data |-> data]

Exception(message) == [t |-> "Exception", str |-> message]

\* what a handler does: return a value or raise
Return(v) == [kind |-> "return", value |-> v]
Raise(e) == [kind |-> "raise", exc |-> e]

\* an f-string: its literal text and the value formatted into it
Fmt(text, arg) == [text |-> text, arg |-> arg]

-----------------------------------------------------------------------------
(* JSONRPCRequest, lines 44-49: the validation the JSONRPCRequest constructor runs.  *)
(* A str field takes a JSON string only; Optional[Dict] takes an object or   *)
(* nothing; Optional[Union[str, int]] takes a string or an integer and keeps *)
(* which of the two it was.                                                  *)

\* keyword unpacking of the body needs a mapping
IsMapping(b) == b.t = "object"

ShapeValid(b) ==
    /\ IsMapping(b)
    /\ b.jsonrpc.t \in {"absent", "str"}
    /\ b.method.t = "str"
    /\ b.params.t \in {"absent", "object"}
    /\ b.id.t \in {"absent", "str", "int"}

JSONRPCRequest(b) ==
    [jsonrpc |-> IF b.jsonrpc.t = "absent" THEN "2.0" ELSE b.jsonrpc.v,
     method |-> b.method.v,
     params |-> IF b.params.t = "absent" THEN None ELSE b.params,
     id |-> IF b.id.t = "absent" THEN None ELSE b.id]

-----------------------------------------------------------------------------
(* The collaborators mcp_routes.py imports: the tool registry               *)
(* (src.tools.registry) and the token manager                               *)
(* (src.controller.mcp_tokens_manager).                                     *)

\* a registered tool: its name, whether its class has a required_scope
\* attribute, and the attribute's value
Tool(name, declares, scope) ==
    [t |-> "Tool", name |-> name, declares |-> declares, required_scope |-> scope]

\* ToolRegistry.get(name): the tool registered under the name, or None
registry_get(reg, name) ==
    IF \E i \in 1..Len(reg) : reg[i].name = name
    THEN reg[CHOOSE i \in 1..Len(reg) : reg[i].name = name]
    ELSE None

\* ToolRegistry.get_mcp_definitions(): one definition per registered tool
get_mcp_definitions(reg) ==
    [i \in 1..Len(reg) |-> [t |-> "definition", name |-> reg[i].name]]

\* MCPTokensManager.validate_token: the token's info when the key is found,
\* active and not expired, None otherwise
validate_token(row) ==
    IF row.status = "active"
    THEN [t |-> "MCPTokenInfo", name |-> "token", scopes |-> row.scopes]
    ELSE None

-----------------------------------------------------------------------------
(* Python truth and dict access on request values *)

\* bool(x) of a header or parameter value: None and "" are falsy
Truthy(x) == x # None /\ x # Absent /\ ~(x.t = "str" /\ x.v = "")

\* params.get("name"), with params = rpc_request.params or {}
params_get_name(params) ==
    IF params = None \/ params.name = Absent THEN None ELSE params.name

\* getattr(tool, "required_scope", "*"), lines 169 and 189
required_scope_of(tool) ==
    IF tool.declares THEN tool.required_scope ELSE Star

-----------------------------------------------------------------------------
(* The method handlers, lines 139-236.  A handler yields what it returns or  *)
(* raises (out) and how often it asked the registry for a tool (lookups)     *)
(* and ran the scope check (scope_checks).                                   *)

Did(out, lookups, scope_checks) ==
    [out |-> out, lookups |-> lookups, scope_checks |-> scope_checks]

\* _handle_initialize, lines 139-150
_handle_initialize ==
    Did(Return([t |-> "initialize",
                protocolVersion |-> "2024-11-05",
                serverInfo |-> [name |-> "ontos-mcp-server", version |-> "1.0.0"],
                capabilities |-> [tools |-> "{}"]]), 0, 0)

\* mutant: the notification handler returns nothing
handle_initialized_none == Did(Return(None), 0, 0)

\* _handle_initialized, lines 152-154: the empty dict
_handle_initialized == Did(Return([t |-> "dict"]), 0, 0)

\* _handle_ping, lines 156-158
_handle_ping ==
    Did(Return([t |-> "ping", pong |-> TRUE, timestamp |-> "utcnow"]), 0, 0)

\* the loop of _handle_tools_list over all_tools[i..], lines 165-171
RECURSIVE filter_tools(_, _, _, _)
filter_tools(all_tools, i, scopes, reg) ==
    IF i > Len(all_tools)
    THEN << >>
    ELSE LET tool_def == all_tools[i]
             tool == registry_get(reg, tool_def.name)
             rest == filter_tools(all_tools, i + 1, scopes, reg)
         IN  IF tool # None /\ _has_scope(scopes, required_scope_of(tool))
             THEN << tool_def >> \o rest
             ELSE rest

\* mutant: tools/list lists every tool, whatever the token's scopes
handle_tools_list_unfiltered(scopes, reg, list_fails) ==
    Did(Return([t |-> "tools", tools |-> get_mcp_definitions(reg)]), 0, 0)

\* _handle_tools_list, lines 160-173
_handle_tools_list(scopes, reg, list_fails) ==
    IF list_fails
    THEN Did(Raise(Exception("get_mcp_definitions")), 0, 0)
    ELSE LET all_tools == get_mcp_definitions(reg)
         IN  Did(Return([t |-> "tools",
                         tools |-> filter_tools(all_tools, 1, scopes, reg)]),
                 Len(all_tools),
                 Cardinality({i \in 1..Len(all_tools) :
                                registry_get(reg, all_tools[i].name) # None}))

\* a handler that stops at "await tool.execute(ctx, **tool_args)"
Await(tool) == [kind |-> "await", tool |-> tool]

\* mutant: the scope check is skipped
handle_tools_call_no_scope(params, scopes, reg, ctx_fails) ==
    LET tool_name == params_get_name(params)
    IN  IF ~Truthy(tool_name)
        THEN Did(Raise(MCPError(JSONRPC_INVALID_PARAMS,
                                Fmt("Missing tool name", None), None)), 0, 0)
        ELSE LET tool == registry_get(reg, tool_name.v)
             IN  IF tool = None
                 THEN Did(Raise(MCPError(JSONRPC_METHOD_NOT_FOUND,
                                         Fmt("Tool not found: ", tool_name),
                                         None)), 1, 0)
                 ELSE Did(Await(tool), 1, 0)

\* mutant: the tool is looked up and its scope checked before the name is
\* validated
handle_tools_call_late_name(params, scopes, reg, ctx_fails) ==
    LET tool_name == params_get_name(params)
        tool == IF tool_name = None
                THEN None
                ELSE registry_get(reg, tool_name.v)
    IN  IF tool # None /\ ~_has_scope(scopes, required_scope_of(tool))
        THEN Did(Raise(MCPError(MCP_AUTH_MISSING_SCOPE,
                                Fmt("Missing required scope: ",
                                    [scope |-> required_scope_of(tool)]),
                                [required_scope |-> required_scope_of(tool),
                                 token_scopes |-> scopes])), 1, 1)
        ELSE IF ~Truthy(tool_name)
        THEN Did(Raise(MCPError(JSONRPC_INVALID_PARAMS,
                                Fmt("Missing tool name", None), None)),
                 1, IF tool = None THEN 0 ELSE 1)
        ELSE IF tool = None
        THEN Did(Raise(MCPError(JSONRPC_METHOD_NOT_FOUND,
                                Fmt("Tool not found: ", tool_name), None)), 1, 0)
        ELSE Did(Await(tool), 1, 1)

\* _handle_tools_call up to the call of tool.execute, lines 175-202
_handle_tools_call(params, scopes, reg, ctx_fails) ==
    LET tool_name == params_get_name(params)
    IN  IF ~Truthy(tool_name)
        THEN Did(Raise(MCPError(JSONRPC_INVALID_PARAMS,
                                Fmt("Missing tool name", None), None)), 0, 0)
        ELSE LET tool == registry_get(reg, tool_name.v)
             IN  IF tool = None
                 THEN Did(Raise(MCPError(JSONRPC_METHOD_NOT_FOUND,
                                         Fmt("Tool not found: ", tool_name),
                                         None)), 1, 0)
                 ELSE LET required_scope == required_scope_of(tool)
                      IN  IF ~_has_scope(scopes, required_scope)
                          THEN Did(Raise(MCPError(
                                       MCP_AUTH_MISSING_SCOPE,
                                       Fmt("Missing required scope: ",
                                           [scope |-> required_scope]),
                                       [required_scope |-> required_scope,
                                        token_scopes |-> scopes])), 1, 1)
                          ELSE IF ctx_fails
                          THEN Did(Raise(Exception("_create_tool_context")), 1, 1)
                          ELSE Did(Await(tool), 1, 1)

\* one MCP content block list with its isError flag
Content(text, isError) ==
    [t |-> "content",
     content |-> << [type |-> "text", text |-> text] >>,
     isError |-> isError]

\* what tool.execute can do: return a ToolResult (success with data that
\* json.dumps can or cannot encode, or failure with or without an error text)
\* or raise (an MCPError included)
ToolResult(success, data, error, encodable) ==
    [t |-> "ToolResult", success |-> success, data |-> data, error |-> error,
     encodable |-> encodable]

ToolRaises(exc) == [t |-> "raises", exc |-> exc]

ToolOutcomes ==
    { ToolResult(TRUE, "data", None, TRUE),
      ToolResult(TRUE, "data", None, FALSE),
      ToolResult(FALSE, "", [str |-> "failed"], TRUE),
      ToolResult(FALSE, "", None, TRUE),
      ToolRaises(Exception("RuntimeError")),
      ToolRaises(MCPError(JSONRPC_INVALID_PARAMS, Fmt("bad arguments", None), None)) }

\* mutant: an exception of the tool is re-raised to the dispatcher
format_tool_result_reraise(o) ==
    IF o.t = "raises"
    THEN Raise(o.exc)
    ELSE IF o.success
    THEN Return(Content([dumps |-> o.data], FALSE))
    ELSE Return(Content(IF o.error = None THEN [str |-> "Unknown error"] ELSE o.error,
                        TRUE))

\* the try block of _handle_tools_call, lines 201-236, given what execute did
format_tool_result(o) ==
    IF o.t = "raises"
    THEN Return(Content(Fmt("Tool execution failed: ", [exc |-> o.exc]), TRUE))
    ELSE IF o.success
    THEN IF o.encodable
         THEN Return(Content([dumps |-> o.data], FALSE))
         ELSE Return(Content(Fmt("Tool execution failed: ",
                                 [exc |-> Exception("json.dumps")]), TRUE))
    ELSE Return(Content(IF o.error = None THEN [str |-> "Unknown error"] ELSE o.error,
                        TRUE))

-----------------------------------------------------------------------------
(* MCPHandler.handle, lines 104-137 *)

\* the keys of the handlers dict, lines 110-116
Methods ==
    { "initialize", "notifications/initialized", "ping", "tools/list", "tools/call" }

\* mutant: an MCPError of a handler is reported as an internal error
handle_result_internal(out, request_id) ==
    IF out.kind = "return"
    THEN make_success_response(out.value, request_id)
    ELSE make_error_response(JSONRPC_INTERNAL_ERROR,
                             Fmt("Internal error: ", [exc |-> out.exc]),
                             None, request_id)

\* the try block of handle, lines 126-137, given what the handler did
handle_result(out, request_id) ==
    IF out.kind = "return"
    THEN make_success_response(out.value, request_id)
    ELSE IF out.exc.t = "MCPError"
    THEN make_error_response(out.exc.code, out.exc.message, out.exc.data, request_id)
    ELSE make_error_response(JSONRPC_INTERNAL_ERROR,
                             Fmt("Internal error: ", [exc |-> out.exc]),
                             None, request_id)

\* mutant: an unknown method is answered with an empty success
method_not_found_ignored(method, request_id) ==
    make_success_response([t |-> "dict"], request_id)

\* lines 118-124: the answer to a method with no handler
method_not_found(method, request_id) ==
    make_error_response(JSONRPC_METHOD_NOT_FOUND,
                        Fmt("Method not found: ", [method |-> method]),
                        None, request_id)

-----------------------------------------------------------------------------
(* The inputs of a request *)

\* the X-API-Key header: absent, empty, or the key "k1"
Headers == { None, JStr(""), JStr("k1") }

\* the subsets of S with at most n elements
RECURSIVE SubsetsUpTo(_, _)
SubsetsUpTo(S, n) ==
    IF n = 0
    THEN { {} }
    ELSE LET smaller == SubsetsUpTo(S, n - 1)
         IN  smaller \cup { G \cup { x } : G \in smaller, x \in S }

\* scopes a token can hold
TokenScopeSets == SubsetsUpTo({ Star, ScopeRead, ScopeAll }, MaxScopes)

\* the store's row for the key "k1": none, a revoked or expired admin token,
\* or a usable token
StoreRows ==
    { [status |-> "notfound", scopes |-> {}] }
    \cup { [status |-> s, scopes |-> { Star }] : s \in { "inactive", "expired" } }
    \cup { [status |-> "active", scopes |-> G] : G \in TokenScopeSets }

\* a tool declares "d:r" or "d:w", or has no required_scope attribute
ToolKinds ==
    { [declares |-> FALSE, scope |-> << >>],
      [declares |-> TRUE, scope |-> ScopeRead],
      [declares |-> TRUE, scope |-> ScopeWrite] }

Registries ==
    UNION { { [i \in 1..n |-> Tool(ToolNames[i], k[i].declares, k[i].scope)] :
                k \in [1..n -> ToolKinds] } : n \in 0..MaxTools }

BodyVersions == { Absent, JStr("2.0"), JStr("1.0") }

BodyMethods ==
    { Absent, JInt("7") } \cup { JStr(m) : m \in Methods \cup { "", "foo/bar" } }

BodyParams ==
    { Absent, JList }
    \cup { [t |-> "object", v |-> "{}", name |-> n] :
             n \in { Absent, JStr(""), JStr("t1"), JStr("t2"), JStr("t9") } }

BodyIds == { Absent, JInt("42"), JStr("42"), JList }

\* what request.json() can yield: a failure, a JSON value that is no object,
\* or an object
Bodies ==
    { [t |-> "malformed"], [t |-> "list"] }
    \cup { [t |-> "object", jsonrpc |-> j, method |-> m, params |-> p, id |-> i] :
             j \in BodyVersions, m \in BodyMethods, p \in BodyParams, i \in BodyIds }

NoCalls ==
    [validate |-> 0, json |-> 0, construct |-> 0, handler |-> 0, lookup |-> 0,
     scope |-> 0, ctx |-> 0, execute |-> 0, commit |-> 0, commit_errors |-> 0,
     rollback |-> 0]

-----------------------------------------------------------------------------
(* mcp_handler, lines 284-354, step by step *)

PipeIdle ==
    /\ token_info = None
    /\ body = None
    /\ rpc_request = None
    /\ call = None
    /\ response = None
    /\ dispatched = None
    /\ handled = None
    /\ session = [pending |-> {}, committed |-> {}]
    /\ calls = NoCalls

ScopeOff ==
    /\ sc_pc = "off"
    /\ sc_scopes = {}
    /\ sc_required = << >>
    /\ sc_result = FALSE

Init ==
    /\ ScopeOff
    /\ pc = "header"
    /\ x_api_key \in Headers
    /\ store \in StoreRows
    /\ registry \in Registries
    /\ PipeIdle

\* the envelope of lines 299-304
MissingKeyResponse ==
    JSONRPCResponse(None,
                    JSONRPCError(MCP_AUTH_FAILED, Fmt("Missing X-API-Key header", None),
                                 None),
                    None)

\* mutant: a rejected token is answered like a malformed request
InvalidKeyResponse_wrong_code ==
    JSONRPCResponse(None,
                    JSONRPCError(JSONRPC_INVALID_REQUEST,
                                 Fmt("Invalid or expired API key", None), None),
                    None)

\* the envelope of lines 311-316
InvalidKeyResponse ==
    JSONRPCResponse(None,
                    JSONRPCError(MCP_AUTH_FAILED,
                                 Fmt("Invalid or expired API key", None), None),
                    None)

\* the envelope of lines 322-327
ParseErrorResponse ==
    JSONRPCResponse(None,
                    JSONRPCError(JSONRPC_PARSE_ERROR,
                                 Fmt("Failed to parse JSON: ",
                                     [exc |-> Exception("JSONDecodeError")]), None),
                    None)

\* the envelope of lines 333-338
InvalidRequestResponse(b) ==
    JSONRPCResponse(None,
                    JSONRPCError(JSONRPC_INVALID_REQUEST,
                                 Fmt("Invalid request: ",
                                     [exc |-> Exception(IF IsMapping(b)
                                                        THEN "ValidationError"
                                                        ELSE "TypeError")]), None),
                    None)

\* mutant: an early return still runs the commit of lines 347-352
short_circuit_commits == "commit"

\* lines 299, 311, 322, 333: a return statement leaves mcp_handler at once,
\* so lines 340-354 (dispatch, db.commit, db.rollback) are not run
short_circuit == "done"

\* mutant: the header is not required
KeyMissing_never(key) == FALSE

\* line 298: "if not x_api_key"
KeyMissing(key) == ~Truthy(key)

\* lines 297-304: the header check
CheckHeader ==
    /\ pc = "header"
    /\ IF KeyMissing(x_api_key)
       THEN /\ response' = model_dump(MissingKeyResponse)
            /\ pc' = short_circuit
       ELSE /\ response' = response
            /\ pc' = "token"
    /\ UNCHANGED << x_api_key, store, registry, token_info, body, rpc_request,
                    call, dispatched, handled, session, calls >>
    /\ UNCHANGED scopeVars

\* mutant: a token that failed validation is let through
TokenRejected_never(info) == FALSE

\* line 310: "if not token_info"
TokenRejected(info) == info = None

\* lines 306-316: validate_token and the check of its result.  The store
\* can fail (db_error): the exception is not caught in mcp_handler.  A
\* usable token has its last-used time updated in the session.
ValidateToken ==
    /\ pc = "token"
    /\ \E db_error \in BOOLEAN :
         IF db_error
         THEN /\ pc' = "escaped"
              /\ calls' = [calls EXCEPT !.validate = @ + 1]
              /\ UNCHANGED << token_info, response, session >>
         ELSE LET info == validate_token(store)
              IN  /\ calls' = [calls EXCEPT !.validate = @ + 1]
                  /\ token_info' = info
                  /\ session' = IF info = None
                                THEN session
                                ELSE [session EXCEPT !.pending = @ \cup { "last_used" }]
                  /\ IF TokenRejected(info)
                     THEN /\ response' = model_dump(InvalidKeyResponse)
                          /\ pc' = short_circuit
                     ELSE /\ response' = response
                          /\ pc' = "parse"
    /\ UNCHANGED << x_api_key, store, registry, body, rpc_request, call,
                    dispatched, handled >>
    /\ UNCHANGED scopeVars

\* lines 318-327: await request.json()
ParseBody ==
    /\ pc = "parse"
    /\ \E b \in Bodies :
         /\ body' = b
         /\ calls' = [calls EXCEPT !.json = @ + 1]
         /\ IF b.t = "malformed"
            THEN /\ response' = model_dump(ParseErrorResponse)
                 /\ pc' = short_circuit
            ELSE /\ response' = response
                 /\ pc' = "shape"
    /\ UNCHANGED << x_api_key, store, registry, token_info, rpc_request, call,
                    dispatched, handled, session >>
    /\ UNCHANGED scopeVars

\* lines 329-338: the JSONRPCRequest constructor on the parsed body
ValidateShape ==
    /\ pc = "shape"
    /\ IF ShapeValid(body)
       THEN /\ rpc_request' = JSONRPCRequest(body)
            /\ response' = response
            /\ pc' = "construct"
       ELSE /\ rpc_request' = rpc_request
            /\ response' = model_dump(InvalidRequestResponse(body))
            /\ pc' = short_circuit
    /\ UNCHANGED << x_api_key, store, registry, token_info, body, call,
                    dispatched, handled, session, calls >>
    /\ UNCHANGED scopeVars

\* line 344 and lines 91-102: MCPHandler(...) builds the registry;
\* create_default_registry can raise, which mcp_handler does not catch
Construct ==
    /\ pc = "construct"
    /\ \E registry_error \in BOOLEAN :
         /\ pc' = IF registry_error THEN "escaped" ELSE "dispatch"
         /\ calls' = [calls EXCEPT !.construct = @ + 1]
    /\ UNCHANGED << x_api_key, store, registry, token_info, body, rpc_request,
                    call, response, dispatched, handled, session >>
    /\ UNCHANGED scopeVars

\* handle returns: the handler did d
Respond(d) ==
    /\ dispatched' = handle_result(d.out, rpc_request.id)
    /\ handled' = d.out
    /\ calls' = [calls EXCEPT !.handler = @ + 1,
                              !.lookup = @ + d.lookups,
                              !.scope = @ + d.scope_checks]
    /\ pc' = "commit"
    /\ UNCHANGED << x_api_key, store, registry, token_info, body, rpc_request,
                    call, response, session >>
    /\ UNCHANGED scopeVars

\* lines 118-124: no handler for the method
MethodNotFound ==
    /\ pc = "dispatch"
    /\ rpc_request.method \notin Methods
    /\ dispatched' = method_not_found(rpc_request.method, rpc_request.id)
    /\ pc' = "commit"
    /\ UNCHANGED << x_api_key, store, registry, token_info, body, rpc_request,
                    call, response, handled, session, calls >>
    /\ UNCHANGED scopeVars

HandleInitialize ==
    /\ pc = "dispatch"
    /\ rpc_request.method = "initialize"
    /\ Respond(_handle_initialize)

HandleInitialized ==
    /\ pc = "dispatch"
    /\ rpc_request.method = "notifications/initialized"
    /\ Respond(_handle_initialized)

HandlePing ==
    /\ pc = "dispatch"
    /\ rpc_request.method = "ping"
    /\ Respond(_handle_ping)

HandleToolsList ==
    /\ pc = "dispatch"
    /\ rpc_request.method = "tools/list"
    /\ \E list_fails \in BOOLEAN :
         Respond(_handle_tools_list(token_info.scopes, registry, list_fails))

\* tools/call up to the await of tool.execute
HandleToolsCall ==
    /\ pc = "dispatch"
    /\ rpc_request.method = "tools/call"
    /\ \E ctx_fails \in BOOLEAN :
         LET d == _handle_tools_call(rpc_request.params, token_info.scopes,
                                     registry, ctx_fails)
         IN  IF d.out.kind = "await"
             THEN /\ call' = [tool |-> d.out.tool, outcome |-> None]
                  /\ calls' = [calls EXCEPT !.lookup = @ + d.lookups,
                                            !.scope = @ + d.scope_checks,
                                            !.ctx = @ + 1]
                  /\ pc' = "execute"
                  /\ UNCHANGED << x_api_key, store, registry, token_info, body,
                                  rpc_request, response, dispatched, handled,
                                  session >>
                  /\ UNCHANGED scopeVars
             ELSE Respond(d)

\* tool.execute runs and _handle_tools_call formats what it did; the tool
\* may have written to the session
Execute ==
    /\ pc = "execute"
    /\ \E o \in ToolOutcomes, wrote \in BOOLEAN :
         /\ dispatched' = handle_result(format_tool_result(o), rpc_request.id)
         /\ handled' = format_tool_result(o)
         /\ session' = IF wrote
                       THEN [session EXCEPT !.pending = @ \cup { "tool_write" }]
                       ELSE session
         /\ calls' = [calls EXCEPT !.handler = @ + 1, !.execute = @ + 1]
         /\ call' = [call EXCEPT !.outcome = o]
    /\ pc' = "commit"
    /\ UNCHANGED << x_api_key, store, registry, token_info, body, rpc_request,
                    response >>
    /\ UNCHANGED scopeVars

\* mutant: a failed commit is reported to the client as an internal error
returned_after_commit_error(envelope, commit_ok) ==
    IF commit_ok
    THEN model_dump(envelope)
    ELSE model_dump(make_error_response(JSONRPC_INTERNAL_ERROR,
                                        Fmt("Internal error: ",
                                            [exc |-> Exception("commit")]),
                                        None, envelope.id))

\* line 354: what mcp_handler returns after the commit of lines 348-352,
\* whether db.commit() raised or not
returned_after_commit(envelope, commit_ok) == model_dump(envelope)

\* lines 347-354: commit, roll back when the commit fails, return the envelope
Commit ==
    /\ pc = "commit"
    /\ \E commit_ok \in BOOLEAN :
         /\ session' = IF commit_ok
                       THEN [pending |-> {},
                             committed |-> session.committed \cup session.pending]
                       ELSE [session EXCEPT !.pending = {}]
         /\ calls' = [calls EXCEPT !.commit = @ + 1,
                                   !.commit_errors = @ + (IF commit_ok THEN 0 ELSE 1),
                                   !.rollback = @ + (IF commit_ok THEN 0 ELSE 1)]
         /\ response' = returned_after_commit(dispatched, commit_ok)
    /\ pc' = "done"
    /\ UNCHANGED << x_api_key, store, registry, token_info, body, rpc_request,
                    call, dispatched, handled >>
    /\ UNCHANGED scopeVars

Next ==
    \/ CheckHeader
    \/ ValidateToken
    \/ ParseBody
    \/ ValidateShape
    \/ Construct
    \/ MethodNotFound
    \/ HandleInitialize
    \/ HandleInitialized
    \/ HandlePing
    \/ HandleToolsList
    \/ HandleToolsCall
    \/ Execute
    \/ Commit

Spec == Init /\ [][Next]_vars

-----------------------------------------------------------------------------
(* The scope matcher on its own: every token scope list and required scope  *)
(* over a small alphabet                                                    *)

ScopeChars == { "d", ":", "*" }

ScopeStrings == UNION { [1..n -> ScopeChars] : n \in 0..MaxScopeLen }

ScopeInit ==
    /\ sc_pc = "call"
    /\ sc_scopes \in SubsetsUpTo(ScopeStrings, MaxGranted)
    /\ sc_required \in ScopeStrings
    /\ sc_result = FALSE
    /\ pc = "off"
    /\ x_api_key = None
    /\ store = [status |-> "notfound", scopes |-> {}]
    /\ registry = << >>
    /\ PipeIdle

HasScopeCall ==
    /\ sc_pc = "call"
    /\ sc_result' = _has_scope(sc_scopes, sc_required)
    /\ sc_pc' = "ret"
    /\ UNCHANGED << sc_scopes, sc_required >>
    /\ UNCHANGED pipeVars

ScopeNext == HasScopeCall

SpecScope == ScopeInit /\ [][ScopeNext]_vars

-----------------------------------------------------------------------------
(* Properties *)

\* an envelope has exactly one of result / error
ExactlyOne(e) == (e.result # None) # (e.error # None)

\* C1: every envelope the dispatcher or the pipeline returns has exactly one
\* of result / error set, never both and never neither
C1_ExactlyOneOfResultError ==
    /\ dispatched # None => ExactlyOne(dispatched)
    /\ response # None => ExactlyOne(response)

\* C1 witness: notifications/initialized answered with the empty object
C1_Witness ==
    /\ pc = "done"
    /\ rpc_request # None
    /\ rpc_request.method = "notifications/initialized"
    /\ response.result = [t |-> "dict"]
    /\ response.error = None

\* the scope rule as section 4.1 states it: "*" granted, or the required
\* scope granted, or the text before the first ":" of the required scope,
\* followed by ":*", granted
Satisfies(G, r) ==
    \/ Star \in G
    \/ r \in G
    \/ \E k \in 1..Len(r) :
         /\ r[k] = ":"
         /\ \A j \in 1..(k - 1) : r[j] # ":"
         /\ (SubSeq(r, 1, k - 1) \o << ":", "*" >>) \in G

StartsWith(s, p) == Len(s) >= Len(p) /\ SubSeq(s, 1, Len(p)) = p

\* C2: _has_scope(r) is true exactly when "*" is granted, or r is granted,
\* or r has a ":" and (the text before its first ":") + ":*" is granted; so
\* "d:*" satisfies every "d:<anything>" and "d:d" alone satisfies no other
\* "d:..." scope
C2_HasScopeExactly ==
    sc_pc = "ret" =>
        /\ sc_result <=> Satisfies(sc_scopes, sc_required)
        /\ (sc_scopes = { << "d", ":", "*" >> } /\ StartsWith(sc_required, << "d", ":" >>))
               => sc_result
        /\ ( /\ sc_scopes = { << "d", ":", "d" >> }
             /\ StartsWith(sc_required, << "d", ":" >>)
             /\ sc_required # << "d", ":", "d" >> )
               => ~sc_result

\* C2 witness: the prefix wildcard ":*" matched on a scope with two colons
C2_Witness ==
    /\ sc_pc = "ret"
    /\ sc_scopes = { << ":", "*" >> }
    /\ sc_required = << ":", ":", "d" >>
    /\ sc_result

\* the request is a tools/call naming a registered tool
CallsRegisteredTool ==
    /\ rpc_request # None
    /\ rpc_request.method = "tools/call"
    /\ rpc_request.params # None
    /\ rpc_request.params.name.t = "str"
    /\ \E i \in 1..Len(registry) : registry[i].name = rpc_request.params.name.v

CalledTool ==
    registry[CHOOSE i \in 1..Len(registry) :
                 registry[i].name = rpc_request.params.name.v]

\* the scope a tool requires: the declared one, "*" without a declaration
RequiredScope(tool) == IF tool.declares THEN tool.required_scope ELSE << "*" >>

\* handle has returned
Dispatched == pc \in { "commit", "done" } /\ dispatched # None

\* C3: tools/call on a registered tool whose required scope the token does
\* not satisfy is answered with error -32002 carrying required_scope and
\* token_scopes, and the tool is not executed
C3_MissingScopeError ==
    ( /\ CallsRegisteredTool
      /\ pc \in { "execute", "commit", "done" }
      /\ ~Satisfies(token_info.scopes, RequiredScope(CalledTool)) )
    => /\ Dispatched
       /\ dispatched.error # None
       /\ dispatched.error.code = -32002
       /\ dispatched.error.data # None
       /\ dispatched.error.data.required_scope = RequiredScope(CalledTool)
       /\ dispatched.error.data.token_scopes = token_info.scopes
       /\ calls.execute = 0
       /\ call = None
       /\ pc = "done" => /\ response.error # None
                         /\ response.error.code = -32002
                         /\ response.error.data = dispatched.error.data

\* C3 witness: a "d:r" token calls a tool requiring "d:w"
C3_Witness ==
    /\ pc = "done"
    /\ CallsRegisteredTool
    /\ token_info.scopes = { ScopeRead }
    /\ response.error # None
    /\ response.error.code = -32002
    /\ response.error.data.required_scope = ScopeWrite

\* C4: tools/list returns exactly the definitions of the registered tools
\* whose required scope the token satisfies, each once, and every tool when
\* the token holds "*"; an omitted tool raises no error
C4_ToolsListExact ==
    ( /\ rpc_request # None
      /\ rpc_request.method = "tools/list"
      /\ Dispatched )
    => IF dispatched.error # None
       THEN dispatched.error.code = -32603
       ELSE LET tools == dispatched.result.tools
                allowed == { i \in 1..Len(registry) :
                               Satisfies(token_info.scopes, RequiredScope(registry[i])) }
            IN  /\ \A i \in allowed : \E j \in 1..Len(tools) :
                       tools[j] = [t |-> "definition", name |-> registry[i].name]
                /\ \A j \in 1..Len(tools) : \E i \in allowed :
                       tools[j].name = registry[i].name
                /\ Len(tools) = Cardinality(allowed)
                /\ << "*" >> \in token_info.scopes => Len(tools) = Len(registry)
                /\ pc = "done" => response.result.tools = tools

\* C4 witness: of two registered tools the token is shown one
C4_Witness ==
    /\ pc = "done"
    /\ rpc_request # None
    /\ rpc_request.method = "tools/list"
    /\ Len(registry) = 2
    /\ response.error = None
    /\ Len(response.result.tools) = 1

\* C5: when execute raises, the response is a success envelope whose result
\* has isError = true, never an error envelope
C5_ToolCrashIsPayloadError ==
    (call # None /\ call.outcome # None /\ call.outcome.t = "raises")
    => /\ Dispatched
       /\ dispatched.error = None
       /\ dispatched.result # None
       /\ dispatched.result.isError = TRUE
       /\ pc = "done" => /\ response.error = None
                         /\ response.result.isError = TRUE

\* C5 witness: the tool raised an MCPError and the client got isError
C5_Witness ==
    /\ pc = "done"
    /\ call # None
    /\ call.outcome # None
    /\ call.outcome.t = "raises"
    /\ call.outcome.exc.t = "MCPError"
    /\ response.error = None
    /\ response.result.isError = TRUE

\* C6: without the credential header the response is the error -32001 with
\* no id, and nothing else ran: no token validation, no body read, no
\* dispatch, no commit
C6_MissingHeader ==
    (x_api_key = None /\ pc # "header")
    => /\ pc = "done"
       /\ response.error # None
       /\ response.error.code = -32001
       /\ response.result = None
       /\ response.id = None
       /\ calls = NoCalls
       /\ token_info = None
       /\ body = None
       /\ rpc_request = None
       /\ dispatched = None
       /\ session = [pending |-> {}, committed |-> {}]

\* C6 witness: a request without the header was answered
C6_Witness ==
    /\ x_api_key = None
    /\ pc = "done"
    /\ response.error.code = -32001

\* C7: a key that is not found, inactive or expired gets one and the same
\* envelope (-32001, same message, no id), whichever of the three it is
C7_SameRejection ==
    ( /\ x_api_key = JStr("k1")
      /\ store.status \in { "notfound", "inactive", "expired" }
      /\ pc \notin { "header", "token", "escaped" } )
    => /\ pc = "done"
       /\ response = [jsonrpc |-> "2.0",
                      result |-> None,
                      error |-> [code |-> -32001,
                                 message |-> Fmt("Invalid or expired API key", None),
                                 data |-> None],
                      id |-> None]

\* C7 witness: an expired admin token was rejected
C7_Witness ==
    /\ pc = "done"
    /\ x_api_key = JStr("k1")
    /\ store.status = "expired"
    /\ response.error.code = -32001

\* the id of the request as the client sent it
SentId == IF body.id = Absent THEN None ELSE body.id

\* C8: the response of the dispatcher carries the id of the request (none
\* when the request has none), on success and on every error
C8_IdEchoed ==
    (rpc_request # None /\ Dispatched)
    => /\ dispatched.id = SentId
       /\ pc = "done" => response.id = SentId

\* C8 witness: an internal error answered with the string id "42"
C8_Witness ==
    /\ pc = "done"
    /\ rpc_request # None
    /\ body.id = JStr("42")
    /\ response.error # None
    /\ response.error.code = -32603
    /\ response.id = JStr("42")

\* C9: a method outside the table is answered with -32601; no handler runs,
\* the registry is not asked for a tool, no scope is checked, no tool runs
C9_UnknownMethod ==
    ( /\ rpc_request # None
      /\ rpc_request.method \notin { "initialize", "notifications/initialized",
                                     "ping", "tools/list", "tools/call" }
      /\ pc \notin { "construct", "dispatch", "escaped" } )
    => /\ Dispatched
       /\ dispatched.error # None
       /\ dispatched.error.code = -32601
       /\ calls.handler = 0
       /\ calls.lookup = 0
       /\ calls.scope = 0
       /\ calls.ctx = 0
       /\ calls.execute = 0
       /\ call = None
       /\ pc = "done" => (response.error # None /\ response.error.code = -32601)

\* C9 witness: the empty method name was rejected
C9_Witness ==
    /\ pc = "done"
    /\ rpc_request # None
    /\ rpc_request.method = ""
    /\ response.error.code = -32601

\* the request is a tools/call without a name, or with an empty one
CallsNoName ==
    /\ rpc_request # None
    /\ rpc_request.method = "tools/call"
    /\ \/ rpc_request.params = None
       \/ rpc_request.params.name = Absent
       \/ rpc_request.params.name = JStr("")

\* C10: tools/call without a name is answered with -32602 whatever the
\* token's scopes and the registry, before any tool lookup or scope check
C10_MissingNameFirst ==
    (CallsNoName /\ pc \in { "execute", "commit", "done" })
    => /\ Dispatched
       /\ dispatched.error # None
       /\ dispatched.error.code = -32602
       /\ calls.lookup = 0
       /\ calls.scope = 0
       /\ calls.ctx = 0
       /\ calls.execute = 0
       /\ pc = "done" => (response.error # None /\ response.error.code = -32602)

\* C10 witness: a token without scopes, a registry with tools, an empty name
C10_Witness ==
    /\ pc = "done"
    /\ CallsNoName
    /\ rpc_request.params # None
    /\ rpc_request.params.name = JStr("")
    /\ token_info.scopes = {}
    /\ Len(registry) > 0
    /\ response.error.code = -32602

\* C11: every run of mcp_handler ends by returning an envelope; no failure
\* (a store error during token validation, a failure while the handler and
\* its registry are built) leaves mcp_handler as an exception
C11_NothingEscapes == pc # "escaped"

\* the fields of the envelope the client gets are those of the envelope the
\* dispatcher computed
SameEnvelope(r, d) ==
    /\ r.jsonrpc = d.jsonrpc
    /\ r.result = d.result
    /\ r.id = d.id
    /\ (r.error = None) <=> (d.error = None)
    /\ d.error # None => /\ r.error.code = d.error.code
                         /\ r.error.message = d.error.message
                         /\ r.error.data = d.error.data

\* C12: when db.commit() fails, rollback is called once and the client gets
\* exactly the envelope the dispatcher computed, as it does when the commit
\* succeeds
C12_CommitFailureKeepsResponse ==
    (pc = "done" /\ calls.commit = 1)
    => /\ SameEnvelope(response, dispatched)
       /\ calls.rollback = calls.commit_errors
       /\ calls.commit_errors = 1 => session.pending = {}

\* C12 witness: the commit failed after a tool ran, and the client still got
\* the tool's result
C12_Witness ==
    /\ pc = "done"
    /\ calls.commit_errors = 1
    /\ calls.rollback = 1
    /\ calls.execute = 1
    /\ response.error = None
    /\ response.result.isError = FALSE

\* the body parsed to an object and was refused by the request validation
ShapeRefused ==
    /\ pc = "done"
    /\ body # None
    /\ body.t = "object"
    /\ rpc_request = None

\* C13: a body that fails the request validation is answered with -32600,
\* carrying the request's id whenever the body holds a string or integer id
C13_InvalidRequestCarriesId ==
    (ShapeRefused /\ body.id.t \in { "str", "int" })
    => /\ response.error # None
       /\ response.error.code = -32600
       /\ response.id = body.id

\* C14: a request whose version tag is present and is not "2.0" is answered
\* with -32600 and is never dispatched
C14_VersionTagEnforced ==
    ( /\ body # None
      /\ body.t = "object"
      /\ body.jsonrpc.t = "str"
      /\ body.jsonrpc.v # "2.0"
      /\ pc # "shape" )
    => /\ pc = "done"
       /\ rpc_request = None
       /\ dispatched = None
       /\ calls.construct = 0
       /\ response.error # None
       /\ response.error.code = -32600

\* the tools/list result names the tool
Listed(tools, name) == \E j \in 1..Len(tools) : tools[j].name = name

\* C15: a registered tool that declares no required scope is open to every
\* valid token: tools/list includes it and tools/call on it passes the scope
\* check, whatever the token's scopes
C15_UndeclaredScopeIsOpen ==
    /\ ( /\ rpc_request # None
         /\ rpc_request.method = "tools/list"
         /\ Dispatched
         /\ dispatched.error = None )
       => \A i \in 1..Len(registry) :
              ~registry[i].declares
                  => Listed(dispatched.result.tools, registry[i].name)
    /\ ( /\ CallsRegisteredTool
         /\ ~CalledTool.declares
         /\ Dispatched )
       => ~(dispatched.error # None /\ dispatched.error.code = -32002)

\* C16: handle lets no exception of a handler out: an MCPError becomes an
\* error envelope with its code, message and data, any other exception an
\* error envelope with code -32603; once the handler is built, the run never
\* ends in an exception
C16_HandleCatchesAll ==
    /\ (handled # None /\ handled.kind = "raise")
       => /\ Dispatched
          /\ dispatched.result = None
          /\ dispatched.error # None
          /\ dispatched.id = rpc_request.id
          /\ IF handled.exc.t = "MCPError"
             THEN /\ dispatched.error.code = handled.exc.code
                  /\ dispatched.error.message = handled.exc.message
                  /\ dispatched.error.data = handled.exc.data
             ELSE dispatched.error.code = -32603
    /\ (handled # None /\ handled.kind = "return")
       => (Dispatched /\ dispatched.error = None)
    /\ pc = "escaped" => (calls.handler = 0 /\ handled = None /\ dispatched = None)
    /\ pc = "commit" => dispatched # None

\* C16 witness: building the tool context failed and the client got -32603
C16_Witness ==
    /\ pc = "done"
    /\ handled # None
    /\ handled.kind = "raise"
    /\ handled.exc = Exception("_create_tool_context")
    /\ response.error.code = -32603

\* the request validation accepts the body (section 3 of the request shape,
\* as the code applies it)
Accepted == body # None /\ body.t = "object" /\ rpc_request # None

\* C17: the steps run in the order header, token validation, body parse,
\* request validation, dispatch, commit; each runs at most once and only
\* after all earlier ones passed, and the first failing step decides the
\* code of the response: -32001, then -32700, then -32600, then the
\* dispatcher's envelope
C17_StepsInOrder ==
    /\ calls.validate <= 1 /\ calls.json <= 1 /\ calls.construct <= 1
    /\ calls.commit <= 1
    /\ calls.validate = 1 => (x_api_key # None /\ x_api_key # JStr(""))
    /\ calls.json = 1 => (calls.validate = 1 /\ store.status = "active"
                          /\ token_info # None)
    /\ rpc_request # None => (calls.json = 1 /\ body.t = "object")
    /\ calls.construct = 1 => rpc_request # None
    /\ (calls.handler > 0 \/ dispatched # None \/ call # None)
           => (calls.construct = 1 /\ pc # "escaped")
    /\ calls.commit = 1 => (dispatched # None /\ pc = "done")
    /\ pc = "done" =>
         IF x_api_key = None \/ x_api_key = JStr("") \/ store.status # "active"
         THEN /\ response.error # None
              /\ response.error.code = -32001
              /\ calls.json = 0 /\ body = None /\ calls.construct = 0
              /\ calls.commit = 0
         ELSE IF body.t = "malformed"
         THEN /\ response.error # None
              /\ response.error.code = -32700
              /\ rpc_request = None /\ calls.construct = 0 /\ calls.commit = 0
         ELSE IF ~Accepted
         THEN /\ response.error # None
              /\ response.error.code = -32600
              /\ calls.construct = 0 /\ calls.commit = 0
         ELSE /\ calls.commit = 1
              /\ SameEnvelope(response, dispatched)

\* C17 witness: an expired token was refused before the body was read
C17_Witness ==
    /\ pc = "done"
    /\ store.status = "expired"
    /\ calls.validate = 1
    /\ calls.json = 0
    /\ response.error.code = -32001

\* C18: a tool's execute is invoked at most once per request, and only after
\* the token was validated, for the method tools/call, on the registered
\* tool the request names, with the token's scopes satisfying that tool's
\* required scope; a handler runs at most once, and once the response is
\* returned no further step can be taken
C18_ExecuteOnceWhenAuthorized ==
    /\ calls.execute <= 1
    /\ calls.handler <= 1
    /\ (pc = "execute" \/ calls.execute = 1 \/ call # None)
       => /\ calls.validate = 1
          /\ store.status = "active"
          /\ token_info # None
          /\ CallsRegisteredTool
          /\ call.tool = CalledTool
          /\ Satisfies(token_info.scopes, RequiredScope(CalledTool))
          /\ calls.lookup = 1
          /\ calls.scope = 1
    /\ pc = "execute" => (calls.execute = 0 /\ calls.handler = 0 /\ dispatched = None)
    /\ pc = "done" => ~ENABLED Next

\* C18 witness: a "d:*" token ran the tool that requires "d:w", once
C18_Witness ==
    /\ pc = "done"
    /\ calls.execute = 1
    /\ token_info.scopes = { ScopeAll }
    /\ call.tool.required_scope = ScopeWrite
    /\ response.error = None

\* C19: when execute returns a ToolResult, the response is a success envelope
\* with exactly one text content block and isError = not success: the encoded
\* payload with isError false on success, the error text with isError true
\* on failure
C19_ResultMapping ==
    ( /\ call # None
      /\ call.outcome # None
      /\ call.outcome.t = "ToolResult"
      /\ Dispatched )
    => /\ dispatched.error = None
       /\ dispatched.result # None
       /\ Len(dispatched.result.content) = 1
       /\ dispatched.result.content[1].type = "text"
       /\ dispatched.result.isError = ~call.outcome.success
       /\ call.outcome.success
              => dispatched.result.content[1].text = [dumps |-> call.outcome.data]
       /\ (~call.outcome.success /\ call.outcome.error # None)
              => dispatched.result.content[1].text = call.outcome.error

\* tools/call naming the tool is answered with the missing-scope error
CallDenied(name, ctx_fails) ==
    LET d == _handle_tools_call([t |-> "object", v |-> "{}", name |-> JStr(name)],
                                token_info.scopes, registry, ctx_fails)
        e == handle_result(d.out, None)
    IN  d.out.kind = "raise" /\ e.error # None /\ e.error.code = -32002

\* C20: with one and the same token, a registered tool's definition is in
\* the tools/list result exactly when tools/call naming that tool is not
\* answered with the missing-scope error -32002
C20_ListAgreesWithCall ==
    ( /\ token_info # None
      /\ rpc_request # None
      /\ pc \in { "dispatch", "execute", "commit", "done" } )
    => LET listed == handle_result(
                         _handle_tools_list(token_info.scopes, registry, FALSE).out,
                         None).result.tools
       IN  /\ \A i \in 1..Len(registry), ctx_fails \in BOOLEAN :
                 Listed(listed, registry[i].name)
                     <=> ~CallDenied(registry[i].name, ctx_fails)
           /\ ( /\ rpc_request.method = "tools/list"
                /\ Dispatched
                /\ dispatched.error = None )
              => dispatched.result.tools = listed
           /\ (CallsRegisteredTool /\ pc # "dispatch")
              => ( (Dispatched /\ dispatched.error # None
                               /\ dispatched.error.code = -32002)
                   <=> ~Listed(listed, CalledTool.name) )

\* C20 witness: a "d:r" token is shown the "d:r" tool and not the "d:w" tool
C20_Witness ==
    /\ pc = "done"
    /\ rpc_request # None
    /\ rpc_request.method = "tools/list"
    /\ token_info.scopes = { ScopeRead }
    /\ Len(registry) = 2
    /\ registry[1].required_scope = ScopeRead
    /\ registry[2].required_scope = ScopeWrite
    /\ response.error = None
    /\ Len(response.result.tools) = 1
    /\ response.result.tools[1].name = "t1"
    /\ CallDenied("t2", FALSE)
    /\ ~CallDenied("t1", FALSE)

\* the request was handed to the dispatcher: the MCPHandler was built
\* (line 344) and its handle (line 345) produced an envelope
ReachedDispatcher == dispatched # None /\ calls.construct = 1

\* mcp_handler returned from one of its early returns (missing header,
\* rejected token, parse error, invalid request)
ShortCircuited == pc = "done" /\ dispatched = None

\* C21: commit is attempted at most once, exactly once for a request that
\* reached the dispatcher whatever envelope it produced, and never
\* otherwise; rollback is called only after a failed commit; on every
\* short-circuit path neither is called and nothing is committed, so on the
\* parse-error and invalid-request paths the last-used update made by the
\* token validation stays pending in the session
C21_CommitOnlyAfterDispatch ==
    /\ calls.commit <= 1
    /\ calls.rollback = calls.commit_errors
    /\ calls.commit_errors <= calls.commit
    /\ pc = "commit" => (ReachedDispatcher /\ calls.commit = 0)
    /\ calls.commit = 1 => (ReachedDispatcher /\ pc = "done")
    /\ (pc = "done" /\ dispatched # None)
          => (calls.commit = 1 /\ session.pending = {})
    /\ pc = "escaped" => (calls.commit = 0 /\ calls.rollback = 0)
    /\ ShortCircuited
          => /\ calls.commit = 0
             /\ calls.rollback = 0
             /\ calls.construct = 0
             /\ calls.handler = 0
             /\ session.committed = {}
             /\ response.error # None
             /\ response.error.code
                   \in { MCP_AUTH_FAILED, JSONRPC_PARSE_ERROR, JSONRPC_INVALID_REQUEST }
             /\ response.error.code = MCP_AUTH_FAILED
                   => (token_info = None /\ session.pending = {})
             /\ response.error.code \in { JSONRPC_PARSE_ERROR, JSONRPC_INVALID_REQUEST }
                   => (token_info # None /\ session.pending = { "last_used" })

\* C21 witness: a valid token sent an invalid request; the last-used update
\* is pending and was neither committed nor rolled back
C21_Witness ==
    /\ ShortCircuited
    /\ token_info # None
    /\ body # None
    /\ body.t = "object"
    /\ response.error.code = JSONRPC_INVALID_REQUEST
    /\ session = [pending |-> { "last_used" }, committed |-> {}]
    /\ calls.commit = 0
    /\ calls.rollback = 0

=============================================================================
